---- MODULE Spec2Model ----
(***************************************************************************)
(* Model of the subscription-gated API backend (backend-server): Google    *)
(* sign-in, the per-user monthly usage counter, the Stripe webhook         *)
(* handlers, the subscription endpoints and the scheduled jobs.            *)
(*                                                                         *)
(* Storage is the three tables of scripts/seed.js.  The handlers whose     *)
(* interleavings matter (sign-in, /usage/increment, /chat) run as          *)
(* processes in request slots: each await of the handler (a SQL query, a   *)
(* call to Google or OpenAI) ends one atomic step, so concurrent requests  *)
(* interleave exactly at the awaits of the code.  The other handlers (the  *)
(* Stripe webhook, the subscription endpoints, the scheduled subscription  *)
(* check) are one action each, the whole handler.                          *)
(***************************************************************************)
EXTENDS Integers, Sequences, FiniteSets, TLC

\* ------------------------------------------------------------------ bounds
\* Request slots in all (the most requests in flight at once).
NSlots == 3
\* Months the clock runs through (month_year is the index of the month).
MaxNow == 2
\* No metered request is started on a record that already counts this many.
MaxUsed == 4
\* Rows the subscriptions table may hold.
MaxSubs == 2
\* Billing periods Stripe reports (a period is named by the month it ends in).
MaxPeriodEnd == 1
\* Requests in flight at once where two handlers interleave.
NPair == 2
\* The requests of one client counted in one window.
MaxHits == 7
\* The limits of the deployment whose environment sets both limit variables.
SmallFree == 2
SmallPremium == 3

\* ------------------------------------------------------- program constants
\* parseInt(process.env.FREE_QUESTIONS_LIMIT) || 50
DefaultFree == 50
\* parseInt(process.env.PREMIUM_QUESTIONS_LIMIT) || 100
DefaultPremium == 100
\* server.js: user.planType === 'premium' ? 100 : 50
ChatPremiumLimit == 100
ChatFreeLimit == 50
\* The limiter's default maximum of requests per window.
DefaultRateLimitMax == 200

Slots == 1..NSlots

\* The identity provider's accounts: subject id and the email it has verified.
GoogleIds == {"g1", "g2"}
Emails == {"a@x.com", "b@x.com"}
GoogleEmail(g) == IF g = "g1" THEN "a@x.com" ELSE "b@x.com"
\* What a presented credential verifies to: an account, or nothing ("bad").
Credentials == GoogleIds \cup {"bad"}

\* The two environments: no limit variable set, or both set.
Envs ==
  { [FREE_QUESTIONS_LIMIT |-> 0, PREMIUM_QUESTIONS_LIMIT |-> 0],
    [FREE_QUESTIONS_LIMIT |-> SmallFree, PREMIUM_QUESTIONS_LIMIT |-> SmallPremium] }

VARIABLES
  env,             \* process.env (the two limit variables; 0 = unset)
  now,             \* the clock, in months
  users,           \* table users: sequence of rows, id = index
  subscriptions,   \* table subscriptions: sequence of rows, in creation order
  usage_tracking,  \* table usage_tracking: set of rows, UNIQUE(user_id, month_year)
  customers,       \* Stripe: the users a customer with metadata.user_id exists for
  tokens,          \* user ids for which generateToken has issued a session token
  pc,              \* per slot: the await the request is at
  loc,             \* per slot: the handler's local variables
  resp,            \* per slot: the response sent
  last,            \* the request and response of the last one-action handler
  hits             \* the rate limiter's store: requests of the client in the window

vars ==
  <<env, now, users, subscriptions, usage_tracking, customers, tokens, pc, loc, resp, last,
    hits>>

\* ------------------------------------------------------------- configuration
\* parseInt(process.env.X) || d : an unset (or zero) variable gives the default.
FreeLimit == IF env.FREE_QUESTIONS_LIMIT # 0 THEN env.FREE_QUESTIONS_LIMIT ELSE DefaultFree
PremiumLimit ==
  IF env.PREMIUM_QUESTIONS_LIMIT # 0 THEN env.PREMIUM_QUESTIONS_LIMIT ELSE DefaultPremium
PlanLimit(plan_type) == IF plan_type = "premium" THEN PremiumLimit ELSE FreeLimit

\* ------------------------------------------------------------------- storage
UserIds == DOMAIN users

\* The rows of subscriptions table subs with user_id = u.
SubsOf(subs, u) == {i \in DOMAIN subs : subs[i].user_id = u}
\* ... FROM subscriptions WHERE user_id = $1 AND status = 'active'
ActiveSubsOf(subs, u) == {i \in SubsOf(subs, u) : subs[i].status = "active"}

\* ... FROM usage_tracking WHERE user_id = $1 AND month_year = $2
UsageRows(ut, u, m) == {r \in ut : r.user_id = u /\ r.month_year = m}
HasUsage(ut, u, m) == UsageRows(ut, u, m) # {}
UsageOf(ut, u, m) == CHOOSE r \in UsageRows(ut, u, m) : TRUE

\* INSERT INTO usage_tracking ... (no ON CONFLICT): the caller tests the key.
InsertUsage(ut, u, m, used, limit) ==
  ut \cup {[user_id |-> u, month_year |-> m,
            questions_used |-> used, questions_limit |-> limit]}

\* UPDATE usage_tracking SET questions_used = questions_used + 1 WHERE key
IncrementUsage(ut, u, m) ==
  {IF r.user_id = u /\ r.month_year = m
     THEN [r EXCEPT !.questions_used = @ + 1] ELSE r : r \in ut}

\* The same upsert replacing the record by a fresh one.
UpsertLimitFresh(ut, u, m, limit) ==
  InsertUsage({r \in ut : ~(r.user_id = u /\ r.month_year = m)}, u, m, 0, limit)

\* INSERT ... (user_id, month_year, questions_limit) ON CONFLICT (user_id, month_year)
\*   DO UPDATE SET questions_limit = $3          (questions_used DEFAULT 0)
UpsertLimit(ut, u, m, limit) ==
  IF HasUsage(ut, u, m)
    THEN {IF r.user_id = u /\ r.month_year = m
            THEN [r EXCEPT !.questions_limit = limit] ELSE r : r \in ut}
    ELSE InsertUsage(ut, u, m, 0, limit)

\* INSERT ... VALUES ($1, $2, 1, $3) ON CONFLICT ... DO UPDATE
\*   SET questions_used = usage_tracking.questions_used + 1
UpsertIncrement(ut, u, m, limit) ==
  IF HasUsage(ut, u, m) THEN IncrementUsage(ut, u, m) ELSE InsertUsage(ut, u, m, 1, limit)

\* -------------------------------------------------------------- request slots
NoLoc ==
  [op |-> "none", user |-> 0, month |-> 0, variant |-> "none", credential |-> "none",
   google_id |-> "none", email |-> "none", is_new |-> FALSE,
   questions_used |-> 0, questions_limit |-> 0]

NoResp ==
  [status |-> 0, code |-> "none", user |-> 0, questionsUsed |-> 0, questionsLimit |-> 0,
   canAskMore |-> FALSE, upgradeUrl |-> "none"]

Reply(status, code) == [NoResp EXCEPT !.status = status, !.code = code]

NoLast == [op |-> "none", status |-> 0, code |-> "none", handler |-> "none", stripe_calls |-> 0]

\* A request takes the lowest free slot (slots only name the requests in flight).
CanStart(p) == pc[p] = "idle" /\ \A q \in Slots : q < p => pc[q] # "idle"

\* res.status(s).json(...) : the request ends with the response r.
Respond(p, r) ==
  /\ pc' = [pc EXCEPT ![p] = "done"]
  /\ resp' = [resp EXCEPT ![p] = r]

Goto(p, label) ==
  /\ pc' = [pc EXCEPT ![p] = label]
  /\ UNCHANGED resp

\* ------------------------------------------------------------ session tokens
\* A token whose payload names the user under another key: decoded.userId is
\* undefined (0) when it is verified.
generateTokenOtherKey(userId) ==
  [form |-> "jwt", userId |-> 0, signature |-> "JWT_SECRET", expired |-> FALSE]

\* jwt.sign({ userId }, process.env.JWT_SECRET, { expiresIn }): the token as it
\* is issued; expired turns TRUE when its lifetime has passed.
generateToken(userId) ==
  [form |-> "jwt", userId |-> userId, signature |-> "JWT_SECRET", expired |-> FALSE]

\* jwt.sign({ userId, type: 'refresh' }, process.env.JWT_SECRET, { expiresIn }):
\* the same key as generateToken, the payload with one more field.
generateRefreshToken(userId) ==
  [form |-> "jwt", userId |-> userId, signature |-> "JWT_SECRET", expired |-> FALSE,
   type |-> "refresh"]

\* What the Authorization header of a request can carry: nothing, a string
\* that is no JWT, a JWT signed with another key, or a token this server
\* issued, before or after its expiry.
Bearers ==
  {[form |-> "missing", userId |-> 0, signature |-> "none", expired |-> FALSE],
   [form |-> "malformed", userId |-> 0, signature |-> "none", expired |-> FALSE],
   [form |-> "jwt", userId |-> 0, signature |-> "other", expired |-> FALSE]}
  \cup {[generateToken(u) EXCEPT !.expired = e] : u \in tokens, e \in BOOLEAN}

\* The refresh tokens of the users, before or after their expiry.
RefreshBearers ==
  {[generateRefreshToken(u) EXCEPT !.expired = e] : u \in UserIds, e \in BOOLEAN}

\* jwt.verify(token, process.env.JWT_SECRET): the error it throws ("none": it
\* returns the payload).  The signature is checked before the expiry.
jwtVerify(bearer) ==
  IF bearer.form # "jwt" \/ bearer.signature # "JWT_SECRET" THEN "JsonWebTokenError"
  ELSE IF bearer.expired THEN "TokenExpiredError"
  ELSE "none"

\* The outcome of a middleware: status 0 is next() (with req.user = user),
\* any other status the error response sent instead.
AuthResult(status, code, user) == [status |-> status, code |-> code, user |-> user]

\* authenticateToken with the is_active test left out.
authenticateAnyUser(bearer, query_ok) ==
  IF bearer.form = "missing" THEN AuthResult(401, "UNAUTHORIZED", 0)
  ELSE IF jwtVerify(bearer) = "TokenExpiredError" THEN AuthResult(401, "TOKEN_EXPIRED", 0)
  ELSE IF jwtVerify(bearer) = "JsonWebTokenError" THEN AuthResult(401, "INVALID_TOKEN", 0)
  ELSE IF ~query_ok THEN AuthResult(500, "INTERNAL_SERVER_ERROR", 0)
  ELSE IF bearer.userId \notin UserIds THEN AuthResult(401, "INVALID_TOKEN", 0)
  ELSE AuthResult(0, "next", bearer.userId)

\* authenticateToken(req, res, next); query_ok = FALSE: the user SELECT throws.
authenticateToken(bearer, query_ok) ==
  IF bearer.form = "missing" THEN AuthResult(401, "UNAUTHORIZED", 0)
  ELSE IF jwtVerify(bearer) = "TokenExpiredError" THEN AuthResult(401, "TOKEN_EXPIRED", 0)
  ELSE IF jwtVerify(bearer) = "JsonWebTokenError" THEN AuthResult(401, "INVALID_TOKEN", 0)
  ELSE IF ~query_ok THEN AuthResult(500, "INTERNAL_SERVER_ERROR", 0)
  ELSE IF bearer.userId \notin UserIds THEN AuthResult(401, "INVALID_TOKEN", 0)
  ELSE IF ~users[bearer.userId].is_active THEN AuthResult(401, "USER_INACTIVE", 0)
  ELSE AuthResult(0, "next", bearer.userId)

\* optionalAuth that answers 401 for a token that does not verify.
optionalAuthStrict(bearer, query_ok) ==
  IF bearer.form = "missing" THEN AuthResult(0, "next", 0)
  ELSE IF jwtVerify(bearer) # "none" THEN AuthResult(401, "INVALID_TOKEN", 0)
  ELSE IF ~query_ok THEN AuthResult(0, "next", 0)
  ELSE IF bearer.userId \in UserIds /\ users[bearer.userId].is_active
    THEN AuthResult(0, "next", bearer.userId)
  ELSE AuthResult(0, "next", 0)

\* optionalAuth(req, res, next): every path ends in one call of next().
optionalAuth(bearer, query_ok) ==
  IF bearer.form = "missing" THEN AuthResult(0, "next", 0)
  ELSE IF jwtVerify(bearer) # "none" THEN AuthResult(0, "next", 0)
  ELSE IF ~query_ok THEN AuthResult(0, "next", 0)
  ELSE IF bearer.userId \in UserIds /\ users[bearer.userId].is_active
    THEN AuthResult(0, "next", bearer.userId)
  ELSE AuthResult(0, "next", 0)

\* authenticateToken passes a request that carries the token issued to u.
Authenticated(u) ==
  /\ u \in tokens
  /\ authenticateToken(generateToken(u), TRUE) = AuthResult(0, "next", u)

\* The state after construction: empty tables.
Init ==
  /\ env \in Envs
  /\ hits = 0
  /\ now = 1
  /\ users = <<>>
  /\ subscriptions = <<>>
  /\ usage_tracking = {}
  /\ customers = {}
  /\ tokens = {}
  /\ pc = [p \in Slots |-> "idle"]
  /\ loc = [p \in Slots |-> NoLoc]
  /\ resp = [p \in Slots |-> NoResp]
  /\ last = NoLast

\* --------------------------------------------------- POST /auth/google-signin
\* Access-token variant: verifyGoogleAccessToken, then tokenData.user_id must
\* equal userInfo.id; the email is taken from userInfo (the claimed payload).
SignInAccessHandler(p, credential, claimed_id, claimed_email) ==
  /\ CanStart(p)
  /\ UNCHANGED <<env, now, users, subscriptions, usage_tracking, customers, tokens, last>>
  /\ loc' = [loc EXCEPT ![p] = [NoLoc EXCEPT !.op = "signin", !.variant = "access",
                                  !.credential = credential, !.google_id = claimed_id,
                                  !.email = claimed_email]]
  /\ IF credential = "bad" \/ credential # claimed_id
       THEN Respond(p, Reply(401, "AUTH_FAILED"))
       ELSE Goto(p, "si_lookup")

\* The request of a client that is under the limiter's maximum.
SignInAccess(p, credential, claimed_id, claimed_email) ==
  /\ UNCHANGED hits
  /\ SignInAccessHandler(p, credential, claimed_id, claimed_email)

\* max: parseInt(process.env.RATE_LIMIT_MAX_REQUESTS) || 200, the variable unset.
RateLimitMax == DefaultRateLimitMax

\* app.use(limiter) in front of the route: the request is counted, answered
\* 429 once the count is above max, and handed to the handler otherwise.
LimitedSignIn(p, credential, claimed_id, claimed_email) ==
  /\ hits < MaxHits
  /\ hits' = hits + 1
  /\ IF hits + 1 > RateLimitMax
       THEN /\ CanStart(p)
            /\ UNCHANGED <<env, now, users, subscriptions, usage_tracking, customers,
                           tokens, last>>
            /\ loc' = [loc EXCEPT ![p] = [NoLoc EXCEPT !.op = "signin", !.variant = "access"]]
            /\ Respond(p, Reply(429, "Too many requests"))
       ELSE SignInAccessHandler(p, credential, claimed_id, claimed_email)

\* windowMs has passed: the store forgets the client's count.
WindowReset ==
  /\ hits > 0
  /\ hits' = 0
  /\ UNCHANGED <<env, now, users, subscriptions, usage_tracking, customers, tokens,
                 pc, loc, resp, last>>

\* Id-token variant: googleClient.verifyIdToken; sub and email from the payload.
SignInId(p, credential) ==
  /\ CanStart(p)
  /\ UNCHANGED <<hits, env, now, users, subscriptions, usage_tracking, customers, tokens, last>>
  /\ loc' = [loc EXCEPT ![p] = [NoLoc EXCEPT !.op = "signin", !.variant = "id",
                                  !.credential = credential, !.google_id = credential,
                                  !.email = IF credential = "bad" THEN "none"
                                            ELSE GoogleEmail(credential)]]
  /\ IF credential = "bad"
       THEN Respond(p, Reply(401, "GOOGLE_AUTH_FAILED"))
       ELSE Goto(p, "si_lookup")

\* The request bodies the handler's checks refuse: the access-token variant
\* needs accessToken, userInfo, userInfo.email and userInfo.id, the id-token
\* variant needs idToken.
InvalidBodies(variant) ==
  IF variant = "access"
    THEN {"no accessToken", "no userInfo", "no userInfo.email", "no userInfo.id"}
    ELSE {"no idToken"}

\* The same checks passing a body on to the user lookup.
SignInUnvalidated(p, variant, body) ==
  /\ CanStart(p)
  /\ body \in InvalidBodies(variant)
  /\ UNCHANGED <<hits, env, now, users, subscriptions, usage_tracking, customers, tokens, last>>
  /\ loc' = [loc EXCEPT ![p] = [NoLoc EXCEPT !.op = "signin", !.variant = variant]]
  /\ Goto(p, "si_lookup")

\* if (!accessToken || !userInfo), if (!userInfo.email || !userInfo.id),
\* if (!idToken): 400 before the provider is asked (credential stays "none").
SignInInvalid(p, variant, body) ==
  /\ CanStart(p)
  /\ body \in InvalidBodies(variant)
  /\ UNCHANGED <<hits, env, now, users, subscriptions, usage_tracking, customers, tokens, last>>
  /\ loc' = [loc EXCEPT ![p] = [NoLoc EXCEPT !.op = "signin", !.variant = variant]]
  /\ Respond(p, Reply(400, "VALIDATION_ERROR"))

\* The error code of the catch block of the variant.
AuthFailed(p) ==
  Reply(401, IF loc[p].variant = "access" THEN "AUTH_FAILED" ELSE "GOOGLE_AUTH_FAILED")

\* SELECT * FROM users WHERE google_id = $1 OR email = $2
UserMatches(google_id, email) ==
  {u \in UserIds : users[u].google_id = google_id \/ users[u].email = email}

\* user = result.rows[0] (no ORDER BY: any matching row may come first), then
\* UPDATE users SET display_name, avatar_url, last_login (columns not modelled).
SignInLookup(p) ==
  /\ pc[p] = "si_lookup"
  /\ UNCHANGED <<hits, env, now, users, subscriptions, usage_tracking, customers, tokens, last>>
  /\ IF UserMatches(loc[p].google_id, loc[p].email) # {}
       THEN \E u \in UserMatches(loc[p].google_id, loc[p].email) :
              /\ loc' = [loc EXCEPT ![p].user = u]
              /\ Goto(p, "si_subinfo")
       ELSE /\ UNCHANGED loc
            /\ Goto(p, "si_insert_user")

\* INSERT INTO users ... RETURNING * ; email and google_id are UNIQUE.
\* ok = FALSE: the query throws (connection or server error).
SignInInsertUser(p, ok) ==
  /\ pc[p] = "si_insert_user"
  /\ UNCHANGED <<hits, env, now, subscriptions, usage_tracking, customers, tokens, last>>
  /\ IF ok /\ UserMatches(loc[p].google_id, loc[p].email) = {}
       THEN /\ users' = Append(users, [email |-> loc[p].email,
                                       google_id |-> loc[p].google_id,
                                       is_active |-> TRUE])
            /\ loc' = [loc EXCEPT ![p].user = Len(users) + 1, ![p].is_new = TRUE]
            /\ Goto(p, "si_insert_sub")
       ELSE /\ UNCHANGED <<users, loc>>
            /\ Respond(p, AuthFailed(p))

\* The row were the columns left to the table's defaults and the status unset.
PendingSubscription(u) ==
  [user_id |-> u, stripe_customer_id |-> 0, stripe_subscription_id |-> "none",
   plan_type |-> "free", status |-> "incomplete",
   current_period_start |-> -1, current_period_end |-> -1, cancel_at_period_end |-> FALSE]

\* The row of INSERT INTO subscriptions (user_id, plan_type, status)
\*   VALUES ($1, 'free', 'active'), the other columns at their defaults
\* (0, "none" and -1 stand for NULL).
FreeSubscription(u) ==
  [user_id |-> u, stripe_customer_id |-> 0, stripe_subscription_id |-> "none",
   plan_type |-> "free", status |-> "active",
   current_period_start |-> -1, current_period_end |-> -1, cancel_at_period_end |-> FALSE]

SignInInsertSubscription(p, ok) ==
  /\ pc[p] = "si_insert_sub"
  /\ UNCHANGED <<hits, env, now, users, usage_tracking, customers, tokens, loc, last>>
  /\ IF ok
       THEN /\ subscriptions' = Append(subscriptions, FreeSubscription(loc[p].user))
            /\ Goto(p, "si_insert_usage")
       ELSE /\ UNCHANGED subscriptions
            /\ Respond(p, AuthFailed(p))

\* The limit of the initial usage row: parseInt(process.env.FREE_QUESTIONS_LIMIT) || 50
InitialLimit == FreeLimit

\* INSERT INTO usage_tracking (user_id, month_year, questions_limit) VALUES (...)
SignInInsertUsage(p, ok) ==
  /\ pc[p] = "si_insert_usage"
  /\ UNCHANGED <<hits, env, now, users, subscriptions, customers, tokens, loc, last>>
  /\ IF ok /\ ~HasUsage(usage_tracking, loc[p].user, now)
       THEN /\ usage_tracking' = InsertUsage(usage_tracking, loc[p].user, now, 0, InitialLimit)
            /\ Goto(p, "si_subinfo")
       ELSE /\ UNCHANGED usage_tracking
            /\ Respond(p, AuthFailed(p))

\* SELECT subscription info; token = generateToken(user.id); res.json({token, user, ...})
SignInRespond(p) ==
  /\ pc[p] = "si_subinfo"
  /\ UNCHANGED <<hits, env, now, users, subscriptions, usage_tracking, customers, loc, last>>
  /\ tokens' = tokens \cup {loc[p].user}
  /\ Respond(p, [Reply(200, "OK") EXCEPT !.user = loc[p].user])

SignInStep(p) ==
  \/ \E variant \in {"access", "id"},
        body \in {"no accessToken", "no userInfo", "no userInfo.email", "no userInfo.id",
                  "no idToken"} : SignInInvalid(p, variant, body)
  \/ \E c \in Credentials, i \in GoogleIds, e \in Emails : SignInAccess(p, c, i, e)
  \/ \E c \in Credentials : SignInId(p, c)
  \/ SignInLookup(p)
  \/ \E ok \in BOOLEAN : SignInInsertUser(p, ok)
  \/ \E ok \in BOOLEAN : SignInInsertSubscription(p, ok)
  \/ \E ok \in BOOLEAN : SignInInsertUsage(p, ok)
  \/ SignInRespond(p)

\* ------------------------------------------------------ POST /usage/increment
\* The limit test were it strict: a record at its limit would pass.
LimitPassed(questions_used, questions_limit) == questions_used > questions_limit

\* if (usageData.questions_used >= questionsLimit)
LimitReached(questions_used, questions_limit) == questions_used >= questions_limit

\* The body of the 403 USAGE_LIMIT_EXCEEDED response (error.details).
LimitExceeded(questions_used, questions_limit) ==
  [Reply(403, "USAGE_LIMIT_EXCEEDED") EXCEPT
     !.questionsUsed = questions_used, !.questionsLimit = questions_limit,
     !.upgradeUrl = "/api/subscriptions/create-checkout-session"]

\* res.json({questionsUsed, questionsLimit, canAskMore})
UsageReply(questions_used, questions_limit) ==
  [Reply(200, "OK") EXCEPT
     !.questionsUsed = questions_used, !.questionsLimit = questions_limit,
     !.canAskMore = (questions_used < questions_limit)]

\* The record a metered request of u would count on is under the cap.
UnderCap(u) == \A r \in UsageRows(usage_tracking, u, now) : r.questions_used < MaxUsed

\* authenticateToken passed; currentMonth = new Date().toISOString().slice(0, 7)
IncrementStart(p, u) ==
  /\ CanStart(p)
  /\ Authenticated(u)
  /\ UnderCap(u)
  /\ UNCHANGED <<hits, env, now, users, subscriptions, usage_tracking, customers, tokens, last>>
  /\ loc' = [loc EXCEPT ![p] = [NoLoc EXCEPT !.op = "increment", !.user = u, !.month = now]]
  /\ Goto(p, "inc_read")

\* SELECT ut.*, s.plan_type FROM usage_tracking ut LEFT JOIN subscriptions s ...
\* and the limit test on the row read.
IncrementRead(p) ==
  /\ pc[p] = "inc_read"
  /\ UNCHANGED <<hits, env, now, users, subscriptions, usage_tracking, customers, tokens, last>>
  /\ IF ~HasUsage(usage_tracking, loc[p].user, loc[p].month)
       THEN /\ UNCHANGED loc
            /\ Goto(p, "inc_plan")
       ELSE LET usageData == UsageOf(usage_tracking, loc[p].user, loc[p].month) IN
            /\ loc' = [loc EXCEPT ![p].questions_used = usageData.questions_used,
                                  ![p].questions_limit = usageData.questions_limit]
            /\ IF LimitReached(usageData.questions_used, usageData.questions_limit)
                 THEN Respond(p, LimitExceeded(usageData.questions_used,
                                               usageData.questions_limit))
                 ELSE Goto(p, "inc_update")

\* subscriptionResult.rows[0]?.plan_type || 'free' over the user's active rows
\* (no ORDER BY: any of them may come first).
ActivePlanTypes(u) ==
  IF ActiveSubsOf(subscriptions, u) = {} THEN {"free"}
  ELSE {subscriptions[i].plan_type : i \in ActiveSubsOf(subscriptions, u)}

IncrementPlan(p) ==
  /\ pc[p] = "inc_plan"
  /\ UNCHANGED <<hits, env, now, users, subscriptions, usage_tracking, customers, tokens, last>>
  /\ \E planType \in ActivePlanTypes(loc[p].user) :
       loc' = [loc EXCEPT ![p].questions_limit = PlanLimit(planType)]
  /\ Goto(p, "inc_insert")

\* INSERT INTO usage_tracking (...) VALUES ($1, $2, 1, $3): throws on the unique
\* key, and the catch answers 500.
IncrementInsert(p) ==
  /\ pc[p] = "inc_insert"
  /\ UNCHANGED <<hits, env, now, users, subscriptions, customers, tokens, loc, last>>
  /\ IF HasUsage(usage_tracking, loc[p].user, loc[p].month)
       THEN /\ UNCHANGED usage_tracking
            /\ Respond(p, Reply(500, "INTERNAL_SERVER_ERROR"))
       ELSE /\ usage_tracking' = InsertUsage(usage_tracking, loc[p].user, loc[p].month,
                                             1, loc[p].questions_limit)
            /\ Respond(p, UsageReply(1, loc[p].questions_limit))

\* UPDATE usage_tracking SET questions_used = questions_used + 1 WHERE key;
\* usageData.questions_used += 1 on the row read before.
IncrementUpdate(p) ==
  /\ pc[p] = "inc_update"
  /\ UNCHANGED <<hits, env, now, users, subscriptions, customers, tokens, loc, last>>
  /\ usage_tracking' = IncrementUsage(usage_tracking, loc[p].user, loc[p].month)
  /\ Respond(p, UsageReply(loc[p].questions_used + 1, loc[p].questions_limit))

IncrementStep(p) ==
  \/ \E u \in UserIds : IncrementStart(p, u)
  \/ IncrementRead(p)
  \/ IncrementPlan(p)
  \/ IncrementInsert(p)
  \/ IncrementUpdate(p)

\* ----------------------------------------------------------------- POST /chat
\* req.user is the users row selected by optionalAuth: it has no planType.
ReqUserPlanType(u) == "none"
\* user.planType === 'premium' ? 100 : 50
ChatLimit(planType) == IF planType = "premium" THEN ChatPremiumLimit ELSE ChatFreeLimit

\* optionalAuth: u = 0 is a request with no bound identity.
ChatStart(p, u) ==
  /\ CanStart(p)
  /\ u = 0 \/ (Authenticated(u) /\ UnderCap(u))
  /\ UNCHANGED <<hits, env, now, users, subscriptions, usage_tracking, customers, tokens, last>>
  /\ loc' = [loc EXCEPT ![p] = [NoLoc EXCEPT !.op = "chat", !.user = u]]
  /\ Goto(p, IF u = 0 THEN "chat_fetch" ELSE "chat_check")

\* The usage SELECT for the current month and the limit test.
ChatCheck(p) ==
  /\ pc[p] = "chat_check"
  /\ UNCHANGED <<hits, env, now, users, subscriptions, usage_tracking, customers, tokens, loc, last>>
  /\ IF /\ HasUsage(usage_tracking, loc[p].user, now)
        /\ LimitReached(UsageOf(usage_tracking, loc[p].user, now).questions_used,
                        UsageOf(usage_tracking, loc[p].user, now).questions_limit)
       THEN Respond(p, LimitExceeded(UsageOf(usage_tracking, loc[p].user, now).questions_used,
                                     UsageOf(usage_tracking, loc[p].user, now).questions_limit))
       ELSE Goto(p, "chat_fetch")

\* fetch(OpenAI): ok, an error status (passed through), or an exception (500).
ChatFetch(p, outcome) ==
  /\ pc[p] = "chat_fetch"
  /\ UNCHANGED <<hits, env, now, users, subscriptions, usage_tracking, customers, tokens, loc, last>>
  /\ CASE outcome = "error" -> Respond(p, Reply(502, "UPSTREAM_ERROR"))
       [] outcome = "throw" -> Respond(p, Reply(500, "SERVER_ERROR"))
       [] OTHER -> IF loc[p].user = 0 THEN Respond(p, Reply(200, "OK"))
                   ELSE Goto(p, "chat_upsert")

\* INSERT ... VALUES ($1, $2, 1, $3) ON CONFLICT DO UPDATE SET questions_used + 1
\* for the month read anew from the clock.
ChatUpsert(p) ==
  /\ pc[p] = "chat_upsert"
  /\ UNCHANGED <<hits, env, now, users, subscriptions, customers, tokens, loc, last>>
  /\ usage_tracking' = UpsertIncrement(usage_tracking, loc[p].user, now,
                                       ChatLimit(ReqUserPlanType(loc[p].user)))
  /\ Respond(p, Reply(200, "OK"))

ChatStep(p) ==
  \/ \E u \in UserIds \cup {0} : ChatStart(p, u)
  \/ ChatCheck(p)
  \/ \E outcome \in {"ok", "error", "throw"} : ChatFetch(p, outcome)
  \/ ChatUpsert(p)

\* ------------------------------------------- GET /usage/status, POST /usage/reset
\* const userId = req.params.userId || req.user.id  (0: the path names no user)
StatusUserId(caller, userId) == IF userId # 0 THEN userId ELSE caller

\* GET /usage/status/:userId?, authenticateToken passed for caller: the record
\* of the resolved user for the current month, or zero use on the limit of one
\* of that user's active rows.
UsageStatus(p, caller, userId) ==
  /\ CanStart(p)
  /\ Authenticated(caller)
  /\ userId \in UserIds \cup {0}
  /\ UNCHANGED <<hits, env, now, users, subscriptions, usage_tracking, customers, tokens, last>>
  /\ loc' = [loc EXCEPT ![p] = [NoLoc EXCEPT !.op = "usage-status", !.user = caller,
                                              !.month = now]]
  /\ IF HasUsage(usage_tracking, StatusUserId(caller, userId), now)
       THEN Respond(p, [Reply(200, "OK") EXCEPT
                          !.questionsUsed =
                             UsageOf(usage_tracking, StatusUserId(caller, userId), now).questions_used,
                          !.questionsLimit =
                             UsageOf(usage_tracking, StatusUserId(caller, userId), now).questions_limit])
       ELSE \E planType \in ActivePlanTypes(StatusUserId(caller, userId)) :
              Respond(p, [Reply(200, "OK") EXCEPT !.questionsLimit = PlanLimit(planType)])

\* UPDATE usage_tracking SET questions_used = 0 WHERE user_id = $1 AND month_year = $2
ResetUsage(ut, u, m) ==
  {IF r.user_id = u /\ r.month_year = m THEN [r EXCEPT !.questions_used = 0] ELSE r : r \in ut}

\* POST /usage/reset/:userId/:monthYear, authenticateToken passed for caller;
\* month_valid: the path's monthYear matches /^\d{4}-\d{2}$/.
UsageReset(p, caller, userId, month_valid, monthYear) ==
  /\ CanStart(p)
  /\ Authenticated(caller)
  /\ userId \in UserIds
  /\ UNCHANGED <<hits, env, now, users, subscriptions, customers, tokens, last>>
  /\ loc' = [loc EXCEPT ![p] = [NoLoc EXCEPT !.op = "usage-reset", !.user = caller,
                                              !.month = monthYear]]
  /\ IF ~month_valid
       THEN /\ UNCHANGED usage_tracking
            /\ Respond(p, Reply(400, "VALIDATION_ERROR"))
       ELSE /\ usage_tracking' = ResetUsage(usage_tracking, userId, monthYear)
            /\ Respond(p, Reply(200, "success"))

UsageRouteStep(p) ==
  \/ \E caller \in UserIds, userId \in 0..Len(users) : UsageStatus(p, caller, userId)
  \/ \E caller \in UserIds, userId \in UserIds, v \in BOOLEAN, m \in 1..MaxNow :
       UsageReset(p, caller, userId, v, m)

\* ------------------------------------------------------------------ scheduling
\* The response has been delivered: the slot is free for the next request.
Recycle(p) ==
  /\ pc[p] = "done"
  /\ pc' = [pc EXCEPT ![p] = "idle"]
  /\ loc' = [loc EXCEPT ![p] = NoLoc]
  /\ resp' = [resp EXCEPT ![p] = NoResp]
  /\ UNCHANGED <<hits, env, now, users, subscriptions, usage_tracking, customers, tokens, last>>

\* The month ends.
Tick ==
  /\ now < MaxNow
  /\ now' = now + 1
  /\ UNCHANGED <<hits, env, users, subscriptions, usage_tracking, customers, tokens, pc, loc, resp, last>>

\* ------------------------------------------------------------------- Stripe
\* The handled event types of the switch, and one the switch does not handle.
HandledTypes ==
  {"customer.subscription.created", "customer.subscription.updated",
   "customer.subscription.deleted", "invoice.payment_succeeded",
   "invoice.payment_failed", "checkout.session.completed"}
EventTypes == HandledTypes \cup {"customer.created"}

\* Stripe's subscriptions: sub_1 and sub_2 belong to the customer created for
\* user 1, sub_x to a customer that carries no metadata.user_id.
StripeSubscriptionIds == {"sub_1", "sub_2", "sub_x"}
SubscriptionCustomer(sid) == IF sid = "sub_x" THEN 0 ELSE 1
\* customer.metadata.user_id of stripe.customers.retrieve (0: none).
CustomerUserId(customer) == customer
\* The status Stripe reports for a subscription (a subset of Stripe's values).
StripeStatuses == {"active", "past_due", "canceled"}
\* current_period_end of the Stripe subscription; the period starts one earlier.
PeriodEnds == 1..MaxPeriodEnd

\* event.data.object, with what stripe.subscriptions.retrieve returns for it:
\* subscription is the subscription's id (for an invoice or a checkout session
\* the subscription it names, "none" when it names none).  The fields the
\* handler of the type never reads are held at one value.
ReadsStatus(type) ==
  type \in {"customer.subscription.created", "customer.subscription.updated",
            "checkout.session.completed"}
ReadsCancelAtPeriodEnd(type) == type = "customer.subscription.updated"
NamesNoSubscription(type) ==
  type \in {"invoice.payment_succeeded", "invoice.payment_failed",
            "checkout.session.completed", "customer.created"}

Events ==
  {ev \in [type : EventTypes, subscription : StripeSubscriptionIds \cup {"none"},
           status : StripeStatuses, current_period_end : PeriodEnds,
           cancel_at_period_end : BOOLEAN] :
     /\ ev.subscription = "none" => NamesNoSubscription(ev.type)
     /\ ev.type = "customer.created" => ev.subscription = "none"
     /\ ~(ReadsStatus(ev.type) /\ ev.subscription # "none") =>
          ev.status = "active" /\ ev.current_period_end = 1
     /\ ~(ReadsCancelAtPeriodEnd(ev.type)) => ~ev.cancel_at_period_end}

\* Stripe sends events only about objects it holds.
EventPossible(ev) ==
  \/ ev.subscription = "none"
  \/ SubscriptionCustomer(ev.subscription) = 0
  \/ SubscriptionCustomer(ev.subscription) \in customers

\* The same write as a blind INSERT of a premium row for the user.
InsertSubscriptionByUser(subs, u, sid, status, period_end) ==
  Append(subs, [user_id |-> u, stripe_customer_id |-> u, stripe_subscription_id |-> sid,
                plan_type |-> "premium", status |-> status,
                current_period_start |-> period_end - 1,
                current_period_end |-> period_end, cancel_at_period_end |-> FALSE])

\* UPDATE subscriptions SET stripe_subscription_id = $1, plan_type = 'premium',
\*   status = $3, current_period_start = $4, current_period_end = $5 WHERE user_id = $6
UpdateSubscriptionByUser(subs, u, sid, status, period_end) ==
  [i \in DOMAIN subs |->
     IF subs[i].user_id = u
       THEN [subs[i] EXCEPT !.stripe_subscription_id = sid, !.plan_type = "premium",
                            !.status = status, !.current_period_start = period_end - 1,
                            !.current_period_end = period_end]
       ELSE subs[i]]

\* UPDATE subscriptions SET status = $1, current_period_start = $2,
\*   current_period_end = $3, cancel_at_period_end = $4 WHERE stripe_subscription_id = $5
UpdateSubscriptionById(subs, sid, status, period_end, cancel_at_period_end) ==
  [i \in DOMAIN subs |->
     IF subs[i].stripe_subscription_id = sid
       THEN [subs[i] EXCEPT !.status = status, !.current_period_start = period_end - 1,
                            !.current_period_end = period_end,
                            !.cancel_at_period_end = cancel_at_period_end]
       ELSE subs[i]]

\* UPDATE subscriptions SET status = $1 WHERE stripe_subscription_id = $2
SetStatusById(subs, sid, status) ==
  [i \in DOMAIN subs |->
     IF subs[i].stripe_subscription_id = sid
       THEN [subs[i] EXCEPT !.status = status] ELSE subs[i]]

\* const userId = customer.metadata.user_id of the subscription's customer
OwnerOf(ev) == CustomerUserId(SubscriptionCustomer(ev.subscription))

\* Each handler maps the tables db = [subscriptions, usage_tracking] to the
\* tables after it has run (m is the current month).
\* The same handler without the return on a missing user id.
handleSubscriptionCreatedUnguarded(db, ev, m) ==
  [subscriptions |-> UpdateSubscriptionByUser(db.subscriptions, OwnerOf(ev),
                       ev.subscription, ev.status, ev.current_period_end),
   usage_tracking |-> UpsertLimit(db.usage_tracking, OwnerOf(ev), m, PremiumLimit)]

handleSubscriptionCreated(db, ev, m) ==
  IF OwnerOf(ev) = 0 THEN db
  ELSE [subscriptions |-> UpdateSubscriptionByUser(db.subscriptions, OwnerOf(ev),
                            ev.subscription, ev.status, ev.current_period_end),
        usage_tracking |-> UpsertLimit(db.usage_tracking, OwnerOf(ev), m, PremiumLimit)]

handleSubscriptionUpdated(db, ev, m) ==
  IF OwnerOf(ev) = 0 THEN db
  ELSE [db EXCEPT !.subscriptions =
          UpdateSubscriptionById(db.subscriptions, ev.subscription, ev.status,
                                 ev.current_period_end, ev.cancel_at_period_end)]

\* The handler were its upsert to start the record anew (questions_used = 0).
handleSubscriptionDeletedReset(db, ev, m) ==
  IF OwnerOf(ev) = 0 THEN db
  ELSE [subscriptions |-> SetStatusById(db.subscriptions, ev.subscription, "cancelled"),
        usage_tracking |->
          InsertUsage({r \in db.usage_tracking :
                         ~(r.user_id = OwnerOf(ev) /\ r.month_year = m)},
                      OwnerOf(ev), m, 0, FreeLimit)]

handleSubscriptionDeleted(db, ev, m) ==
  IF OwnerOf(ev) = 0 THEN db
  ELSE [subscriptions |-> SetStatusById(db.subscriptions, ev.subscription, "cancelled"),
        usage_tracking |-> UpsertLimit(db.usage_tracking, OwnerOf(ev), m, FreeLimit)]

\* The same handler reactivating only rows that are not past_due.
handlePaymentSucceededUnlessPastDue(db, ev, m) ==
  IF ev.subscription = "none" \/ OwnerOf(ev) = 0 THEN db
  ELSE [db EXCEPT !.subscriptions =
          [i \in DOMAIN db.subscriptions |->
             IF /\ db.subscriptions[i].stripe_subscription_id = ev.subscription
                /\ db.subscriptions[i].status # "past_due"
               THEN [db.subscriptions[i] EXCEPT !.status = "active"]
               ELSE db.subscriptions[i]]]

handlePaymentSucceeded(db, ev, m) ==
  IF ev.subscription = "none" \/ OwnerOf(ev) = 0 THEN db
  ELSE [db EXCEPT !.subscriptions = SetStatusById(db.subscriptions, ev.subscription, "active")]

\* The same handler also putting the month's limit back to the free limit.
handlePaymentFailedDemote(db, ev, m) ==
  IF ev.subscription = "none" \/ OwnerOf(ev) = 0 THEN db
  ELSE [subscriptions |-> SetStatusById(db.subscriptions, ev.subscription, "past_due"),
        usage_tracking |-> UpsertLimit(db.usage_tracking, OwnerOf(ev), m, FreeLimit)]

handlePaymentFailed(db, ev, m) ==
  IF ev.subscription = "none" \/ OwnerOf(ev) = 0 THEN db
  ELSE [db EXCEPT !.subscriptions = SetStatusById(db.subscriptions, ev.subscription, "past_due")]

handleCheckoutCompleted(db, ev, m) ==
  IF ev.subscription = "none" \/ OwnerOf(ev) = 0 THEN db
  ELSE [db EXCEPT !.subscriptions =
          UpdateSubscriptionByUser(db.subscriptions, OwnerOf(ev), ev.subscription,
                                   ev.status, ev.current_period_end)]

\* The same switch with the created handler as its default branch.
DispatchDefaultCreated(db, ev, m) ==
  CASE ev.type = "customer.subscription.updated" -> handleSubscriptionUpdated(db, ev, m)
    [] ev.type = "customer.subscription.deleted" -> handleSubscriptionDeleted(db, ev, m)
    [] ev.type = "invoice.payment_succeeded" -> handlePaymentSucceeded(db, ev, m)
    [] ev.type = "invoice.payment_failed" -> handlePaymentFailed(db, ev, m)
    [] ev.type = "checkout.session.completed" -> handleCheckoutCompleted(db, ev, m)
    [] OTHER -> handleSubscriptionCreated(db, ev, m)

\* switch (event.type)
Dispatch(db, ev, m) ==
  CASE ev.type = "customer.subscription.created" -> handleSubscriptionCreated(db, ev, m)
    [] ev.type = "customer.subscription.updated" -> handleSubscriptionUpdated(db, ev, m)
    [] ev.type = "customer.subscription.deleted" -> handleSubscriptionDeleted(db, ev, m)
    [] ev.type = "invoice.payment_succeeded" -> handlePaymentSucceeded(db, ev, m)
    [] ev.type = "invoice.payment_failed" -> handlePaymentFailed(db, ev, m)
    [] ev.type = "checkout.session.completed" -> handleCheckoutCompleted(db, ev, m)
    [] OTHER -> db

\* The handler the switch calls for the event ("none": the default branch).
HandlerOf(ev) == IF ev.type \in HandledTypes THEN ev.type ELSE "none"

\* The calls to the Stripe API the handler makes: customers.retrieve, and
\* before it subscriptions.retrieve for an invoice or a checkout session.
StripeCalls(ev) ==
  CASE ev.type \in {"customer.subscription.created", "customer.subscription.updated",
                    "customer.subscription.deleted"} -> 1
    [] ev.type \in {"invoice.payment_succeeded", "invoice.payment_failed",
                    "checkout.session.completed"} ->
         IF ev.subscription = "none" THEN 0 ELSE 2
    [] OTHER -> 0

\* A parse of the body that never looks at the signature.
parseEvent(signature_valid) == TRUE

\* stripe.webhooks.constructEvent(req.body, sig, STRIPE_WEBHOOK_SECRET) returns
\* the event (TRUE) or throws (FALSE).
constructEvent(signature_valid) == signature_valid

DB == [subscriptions |-> subscriptions, usage_tracking |-> usage_tracking]

\* POST /webhooks/stripe: the tables the handler leaves and its response.
WebhookResult(signature_valid, ev) ==
  IF ~constructEvent(signature_valid)
    THEN [db |-> DB,
          reply |-> [op |-> "webhook", status |-> 400, code |-> "Webhook Error",
                     handler |-> "none", stripe_calls |-> 0]]
    ELSE [db |-> Dispatch(DB, ev, now),
          reply |-> [op |-> "webhook", status |-> 200, code |-> "received",
                     handler |-> HandlerOf(ev), stripe_calls |-> StripeCalls(ev)]]

Webhook(signature_valid, ev) ==
  /\ EventPossible(ev)
  /\ UNCHANGED <<hits, env, now, users, customers, tokens, pc, loc, resp>>
  /\ subscriptions' = WebhookResult(signature_valid, ev).db.subscriptions
  /\ usage_tracking' = WebhookResult(signature_valid, ev).db.usage_tracking
  /\ last' = WebhookResult(signature_valid, ev).reply

\* The awaits of a handler that can throw: the first and the second Stripe
\* fetch, the first and the second query.
Faults == {"fetch1", "fetch2", "query1", "query2"}

\* The handler reaches that await for the event.
FaultReached(ev, fault) ==
  CASE fault = "fetch1" -> StripeCalls(ev) >= 1
    [] fault = "fetch2" -> StripeCalls(ev) >= 2
    [] fault = "query1" -> /\ ev.type \in HandledTypes /\ ev.subscription # "none"
                           /\ OwnerOf(ev) # 0
    [] fault = "query2" -> /\ ev.type \in {"customer.subscription.created",
                                           "customer.subscription.deleted"}
                           /\ OwnerOf(ev) # 0
    [] OTHER -> FALSE

\* The tables a handler leaves when it throws at that await: each query is
\* its own statement, so a throw at the second query keeps the first.
FailedTables(db, ev, m, fault) ==
  IF fault = "query2"
    THEN [db EXCEPT !.subscriptions = Dispatch(db, ev, m).subscriptions]
    ELSE db

\* The Stripe calls made up to the throw.
FailedStripeCalls(ev, fault) ==
  CASE fault = "fetch1" -> 1
    [] fault = "fetch2" -> 2
    [] OTHER -> StripeCalls(ev)

\* The same catch answering as if the handler had completed.
WebhookFailureSwallowed(ev, fault) ==
  [db |-> FailedTables(DB, ev, now, fault),
   reply |-> [op |-> "webhook", status |-> 200, code |-> "received",
              handler |-> HandlerOf(ev), stripe_calls |-> FailedStripeCalls(ev, fault)]]

\* The handler rethrows and the router's catch answers 500.
WebhookFailure(ev, fault) ==
  [db |-> FailedTables(DB, ev, now, fault),
   reply |-> [op |-> "webhook", status |-> 500, code |-> "Webhook processing failed",
              handler |-> HandlerOf(ev), stripe_calls |-> FailedStripeCalls(ev, fault)]]

\* POST /webhooks/stripe with a valid signature and a handler that throws.
WebhookFault(ev, fault) ==
  /\ EventPossible(ev)
  /\ FaultReached(ev, fault)
  /\ UNCHANGED <<hits, env, now, users, customers, tokens, pc, loc, resp>>
  /\ subscriptions' = WebhookFailure(ev, fault).db.subscriptions
  /\ usage_tracking' = WebhookFailure(ev, fault).db.usage_tracking
  /\ last' = WebhookFailure(ev, fault).reply

\* ------------------------------------------------ /subscriptions endpoints
EndpointReply(op, status, code) ==
  [op |-> op, status |-> status, code |-> code, handler |-> "none", stripe_calls |-> 0]

\* UPDATE subscriptions SET stripe_customer_id = $1 WHERE user_id = $2
SetCustomerByUser(subs, u, customer) ==
  [i \in DOMAIN subs |->
     IF subs[i].user_id = u THEN [subs[i] EXCEPT !.stripe_customer_id = customer]
     ELSE subs[i]]

\* POST /subscriptions/create-checkout-session, for the authenticated user u.
\* row: the row the SELECT of the user's active rows returns first (0: no row).
CreateCheckoutSession(u, body_valid, row) ==
  /\ Authenticated(u)
  /\ UNCHANGED <<hits, env, now, users, usage_tracking, tokens, pc, loc, resp>>
  /\ IF ActiveSubsOf(subscriptions, u) = {} THEN row = 0
     ELSE row \in ActiveSubsOf(subscriptions, u)
  /\ IF ~body_valid
       THEN /\ UNCHANGED <<subscriptions, customers>>
            /\ last' = EndpointReply("create-checkout-session", 400, "VALIDATION_ERROR")
       ELSE /\ last' = EndpointReply("create-checkout-session", 200, "sessionId")
            /\ IF row # 0 /\ subscriptions[row].stripe_customer_id # 0
                 THEN UNCHANGED <<subscriptions, customers>>
                 ELSE /\ customers' = customers \cup {u}
                      /\ IF row # 0
                           THEN subscriptions' = SetCustomerByUser(subscriptions, u, u)
                           ELSE /\ Len(subscriptions) < MaxSubs
                                /\ subscriptions' =
                                     Append(subscriptions,
                                            [FreeSubscription(u) EXCEPT !.stripe_customer_id = u])

\* The checkout sessions a caller can name: none, one Stripe does not know, an
\* unpaid one, and the paid session of each subscription of user 1's customer.
Sessions == {"missing", "unknown", "unpaid", "sub_1", "sub_2"}

\* POST /subscriptions/verify-payment, for the authenticated user u; status and
\* period_end are what stripe.subscriptions.retrieve returns.
VerifyPayment(u, session, status, period_end) ==
  /\ Authenticated(u)
  /\ session \in StripeSubscriptionIds => SubscriptionCustomer(session) \in customers
  /\ UNCHANGED <<hits, env, now, users, customers, tokens, pc, loc, resp>>
  /\ CASE session = "missing" ->
            /\ UNCHANGED <<subscriptions, usage_tracking>>
            /\ last' = EndpointReply("verify-payment", 400, "VALIDATION_ERROR")
       [] session = "unknown" ->
            /\ UNCHANGED <<subscriptions, usage_tracking>>
            /\ last' = EndpointReply("verify-payment", 500, "PAYMENT_FAILED")
       [] session = "unpaid" ->
            /\ UNCHANGED <<subscriptions, usage_tracking>>
            /\ last' = EndpointReply("verify-payment", 400, "PAYMENT_FAILED")
       [] OTHER ->
            /\ subscriptions' =
                 UpdateSubscriptionByUser(subscriptions, u, session, status, period_end)
            /\ usage_tracking' = UpsertLimit(usage_tracking, u, now, PremiumLimit)
            /\ last' = EndpointReply("verify-payment", 200, "success")

\* A cancellation that ends the subscription at once.
SetCancelled(subs, u) ==
  [i \in DOMAIN subs |->
     IF subs[i].user_id = u
       THEN [subs[i] EXCEPT !.cancel_at_period_end = TRUE, !.status = "cancelled"]
     ELSE subs[i]]

\* UPDATE subscriptions SET cancel_at_period_end = true WHERE user_id = $2
SetCancelAtPeriodEnd(subs, u) ==
  [i \in DOMAIN subs |->
     IF subs[i].user_id = u THEN [subs[i] EXCEPT !.cancel_at_period_end = TRUE]
     ELSE subs[i]]

\* POST /subscriptions/cancel, for the authenticated user u.
CancelSubscription(u) ==
  /\ Authenticated(u)
  /\ UNCHANGED <<hits, env, now, users, usage_tracking, customers, tokens, pc, loc, resp>>
  /\ IF ActiveSubsOf(subscriptions, u) = {}
       THEN /\ UNCHANGED subscriptions
            /\ last' = EndpointReply("cancel", 404, "SUBSCRIPTION_NOT_FOUND")
       ELSE /\ subscriptions' = SetCancelAtPeriodEnd(subscriptions, u)
            /\ last' = EndpointReply("cancel", 200, "success")

\* ------------------------------------------------------------ scheduled jobs
\* UPDATE subscriptions SET status = 'expired' WHERE status = 'active'
\*   AND current_period_end < NOW() AND cancel_at_period_end = false
\* (a NULL current_period_end, here -1, compares as not less).
ExpireSubscriptions(subs, t) ==
  [i \in DOMAIN subs |->
     IF /\ subs[i].status = "active"
        /\ subs[i].current_period_end # -1
        /\ subs[i].current_period_end < t
        /\ ~subs[i].cancel_at_period_end
       THEN [subs[i] EXCEPT !.status = "expired"] ELSE subs[i]]

\* setupSubscriptionCheck: the daily job.
SubscriptionCheck ==
  /\ subscriptions' = ExpireSubscriptions(subscriptions, now)
  /\ UNCHANGED <<hits, env, now, users, usage_tracking, customers, tokens, pc, loc, resp, last>>

\* SELECT DISTINCT u.id, s.plan_type FROM users u JOIN subscriptions s
\*   ON u.id = s.user_id WHERE s.status = 'active'
ResetRows(subs) ==
  {<<subs[i].user_id, subs[i].plan_type>> :
     i \in {j \in DOMAIN subs : subs[j].status = "active" /\ subs[j].user_id \in UserIds}}

\* The orders in which the query may return its rows (it has no ORDER BY).
ResetOrders(subs) ==
  {o \in [1..Cardinality(ResetRows(subs)) -> ResetRows(subs)] :
     \A a, b \in DOMAIN o : o[a] = o[b] => a = b}

\* INSERT ... VALUES ($1, $2, 0, $3) ON CONFLICT (user_id, month_year)
\*   DO UPDATE SET questions_used = 0, questions_limit = $3
UpsertReset(ut, u, m, limit) ==
  InsertUsage({r \in ut : ~(r.user_id = u /\ r.month_year = m)}, u, m, 0, limit)

\* for (const user of result.rows): the upsert with the limit of the row's plan.
RECURSIVE ResetLoop(_, _, _)
ResetLoop(ut, rows, m) ==
  IF rows = <<>> THEN ut
  ELSE ResetLoop(UpsertReset(ut, Head(rows)[1], m, PlanLimit(Head(rows)[2])),
                 Tail(rows), m)

\* setupMonthlyUsageReset: the job of the first of the month.
MonthlyUsageReset ==
  /\ \E rows \in ResetOrders(subscriptions) :
       usage_tracking' = ResetLoop(usage_tracking, rows, now)
  /\ UNCHANGED <<hits, env, now, users, subscriptions, customers, tokens, pc, loc, resp, last>>

\* ------------------------------------------------------- guarded requests
\* The account is switched off in the database (users.is_active = false): no
\* handler of the server writes the column.
Deactivate(u) ==
  /\ u \in UserIds
  /\ users[u].is_active
  /\ users' = [users EXCEPT ![u].is_active = FALSE]
  /\ UNCHANGED <<hits, env, now, subscriptions, usage_tracking, customers, tokens, pc, loc, resp, last>>

\* The routes of /subscriptions behind authenticateToken that write.
GuardedEndpoints == {"create-checkout-session", "verify-payment", "cancel"}

\* router.post(path, authenticateToken, handler): the middleware answers, or
\* the handler runs for req.user.
EndpointRequest(op, bearer, query_ok) ==
  IF authenticateToken(bearer, query_ok).status # 0
    THEN /\ last' = EndpointReply(op, authenticateToken(bearer, query_ok).status,
                                  authenticateToken(bearer, query_ok).code)
         /\ UNCHANGED <<hits, env, now, users, subscriptions, usage_tracking, customers,
                        tokens, pc, loc, resp>>
    ELSE CASE op = "create-checkout-session" ->
                \E b \in BOOLEAN, row \in DOMAIN subscriptions \cup {0} :
                  CreateCheckoutSession(authenticateToken(bearer, query_ok).user, b, row)
           [] op = "verify-payment" ->
                \E s \in Sessions, st \in StripeStatuses, pe \in PeriodEnds :
                  VerifyPayment(authenticateToken(bearer, query_ok).user, s, st, pe)
           [] OTHER -> CancelSubscription(authenticateToken(bearer, query_ok).user)

\* router.post('/increment', authenticateToken, handler) in slot p.
IncrementRequest(p, bearer, query_ok) ==
  IF authenticateToken(bearer, query_ok).status # 0
    THEN /\ CanStart(p)
         /\ loc' = [loc EXCEPT ![p] = [NoLoc EXCEPT !.op = "increment"]]
         /\ Respond(p, Reply(authenticateToken(bearer, query_ok).status,
                             authenticateToken(bearer, query_ok).code))
         /\ UNCHANGED <<hits, env, now, users, subscriptions, usage_tracking, customers,
                        tokens, last>>
    ELSE IncrementStart(p, authenticateToken(bearer, query_ok).user)

\* app.post("/api/chat", optionalAuth, ...) in slot p.
ChatRequest(p, bearer, query_ok) ==
  IF optionalAuth(bearer, query_ok).status # 0
    THEN /\ CanStart(p)
         /\ loc' = [loc EXCEPT ![p] = [NoLoc EXCEPT !.op = "chat"]]
         /\ Respond(p, Reply(optionalAuth(bearer, query_ok).status,
                             optionalAuth(bearer, query_ok).code))
         /\ UNCHANGED <<hits, env, now, users, subscriptions, usage_tracking, customers,
                        tokens, last>>
    ELSE ChatStart(p, optionalAuth(bearer, query_ok).user)

RequestStep(p) ==
  \/ \E op \in GuardedEndpoints, b \in Bearers, ok \in BOOLEAN : EndpointRequest(op, b, ok)
  \/ \E b \in Bearers, ok \in BOOLEAN : IncrementRequest(p, b, ok)
  \/ \E b \in Bearers, ok \in BOOLEAN : ChatRequest(p, b, ok)

\* ---------------------------------------------------------- GET /auth/profile
\* req.user as the profile handler finds it: router.get('/profile', handler) has
\* no middleware before the handler and app.use('/api/auth', authRoutes) adds
\* none, so no code has read the bearer token: req.user is undefined (0).
ProfileReqUser(bearer) == 0

\* GET /api/auth/profile: const userId = req.user.id throws a TypeError when
\* req.user is undefined; asyncHandler hands it to the global error handler,
\* which answers 500.  Otherwise the user's row, or 404 USER_NOT_FOUND.
Profile(bearer) ==
  /\ UNCHANGED <<hits, env, now, users, subscriptions, usage_tracking, customers, tokens,
                 pc, loc, resp>>
  /\ last' = IF ProfileReqUser(bearer) = 0
               THEN EndpointReply("profile", 500, "Internal server error")
             ELSE IF ProfileReqUser(bearer) \notin UserIds
               THEN EndpointReply("profile", 404, "USER_NOT_FOUND")
             ELSE EndpointReply("profile", 200, "user")

\* ------------------------------------------------------- next-state relations
WebhookStep == \E s \in BOOLEAN, ev \in Events : Webhook(s, ev)

WebhookFaultStep == \E ev \in Events, fault \in Faults : WebhookFault(ev, fault)

EndpointStep ==
  \/ \E u \in UserIds, b \in BOOLEAN, row \in DOMAIN subscriptions \cup {0} :
       CreateCheckoutSession(u, b, row)
  \/ \E u \in UserIds, s \in Sessions, st \in StripeStatuses, pe \in PeriodEnds :
       VerifyPayment(u, s, st, pe)
  \/ \E u \in UserIds : CancelSubscription(u)

\* Every handler, requests in any number of the slots.
Next ==
  \/ \E p \in Slots : SignInStep(p)
  \/ \E p \in Slots : IncrementStep(p)
  \/ \E p \in Slots : ChatStep(p)
  \/ \E p \in Slots : Recycle(p)
  \/ \E p \in Slots : RequestStep(p)
  \/ \E u \in UserIds : Deactivate(u)
  \/ WebhookStep
  \/ WebhookFaultStep
  \/ EndpointStep
  \/ SubscriptionCheck
  \/ MonthlyUsageReset
  \/ \E p \in Slots, c \in Credentials, i \in GoogleIds, e \in Emails :
       LimitedSignIn(p, c, i, e)
  \/ WindowReset
  \/ \E p \in Slots : UsageRouteStep(p)
  \/ \E b \in Bearers : Profile(b)
  \/ Tick

Spec == Init /\ [][Next]_vars

\* The state after the first sign-in of account g1 in the first month.
InitSignedIn ==
  /\ env \in Envs
  /\ hits = 0
  /\ now = 1
  /\ users = <<[email |-> GoogleEmail("g1"), google_id |-> "g1", is_active |-> TRUE]>>
  /\ subscriptions = <<FreeSubscription(1)>>
  /\ usage_tracking = InsertUsage({}, 1, 1, 0, InitialLimit)
  /\ customers = {}
  /\ tokens = {1}
  /\ pc = [p \in Slots |-> "idle"]
  /\ loc = [p \in Slots |-> NoLoc]
  /\ resp = [p \in Slots |-> NoResp]
  /\ last = NoLast

\* Billing: the webhook, the subscription endpoints and the daily check, for a
\* signed-in user.
NextBilling ==
  \/ WebhookStep
  \/ EndpointStep
  \/ SubscriptionCheck
  \/ Tick

SpecBilling == InitSignedIn /\ [][NextBilling]_vars

\* The slots of the specifications with two requests in flight.
Pair == {p \in Slots : p <= NPair}

\* Sign-in alone, two requests interleaving, on the empty database.
NextSignIn ==
  \/ \E p \in Pair : SignInStep(p)
  \/ \E p \in Pair : Recycle(p)

SpecSignIn == Init /\ [][NextSignIn]_vars

\* The metered endpoints, two requests interleaving, for a signed-in user.
NextUsage ==
  \/ \E p \in Pair : IncrementStep(p)
  \/ \E p \in Pair : ChatStep(p)
  \/ \E p \in Pair : Recycle(p)
  \/ Tick

SpecUsage == InitSignedIn /\ [][NextUsage]_vars

\* The metered endpoints, one request at a time.
NextSerial ==
  \/ IncrementStep(1)
  \/ ChatStep(1)
  \/ Recycle(1)
  \/ Tick

SpecSerial == InitSignedIn /\ [][NextSerial]_vars

\* The signed-in user has one question left in the first month.
InitRace ==
  /\ env \in Envs
  /\ hits = 0
  /\ now = 1
  /\ users = <<[email |-> GoogleEmail("g1"), google_id |-> "g1", is_active |-> TRUE]>>
  /\ subscriptions = <<FreeSubscription(1)>>
  /\ usage_tracking = InsertUsage({}, 1, 1, InitialLimit - 1, InitialLimit)
  /\ customers = {}
  /\ tokens = {1}
  /\ pc = [p \in Slots |-> "idle"]
  /\ loc = [p \in Slots |-> NoLoc]
  /\ resp = [p \in Slots |-> NoResp]
  /\ last = NoLast

\* One /usage/increment request in each slot, each sent once.
NextRace ==
  \/ \E p \in Slots : IncrementStep(p)
  \/ Tick

SpecRace == InitRace /\ [][NextRace]_vars

\* ===================================================================== claims
\* C1: when several POST /usage/increment requests of one user are in flight
\* at once on a record with questions_used = questions_limit - 1, exactly one
\* of them succeeds and every other one is rejected with USAGE_LIMIT_EXCEEDED.
C1_ExactlyOneSucceeds ==
  (\A p \in Slots : pc[p] = "done" /\ loc[p].op = "increment" /\ loc[p].month = 1) =>
    /\ Cardinality({p \in Slots : resp[p].status = 200}) = 1
    /\ \A p \in Slots :
         resp[p].status # 200 =>
           resp[p].status = 403 /\ resp[p].code = "USAGE_LIMIT_EXCEEDED"

\* C2: under any interleaving of /usage/increment and authenticated /chat
\* requests, with no change of the limit, every usage record keeps
\* 0 <= questions_used <= questions_limit.
C2_UsedWithinLimit ==
  \A r \in usage_tracking :
    0 <= r.questions_used /\ r.questions_used <= r.questions_limit

\* C3: when /usage/increment requests are handled one at a time on an existing
\* record, a request on a record with questions_used < questions_limit
\* succeeds, adds exactly 1 and reports the new count; a request on a record
\* with questions_used >= questions_limit is answered 403 USAGE_LIMIT_EXCEEDED
\* with the current usage, the limit and the upgrade path, the record unchanged.
C3_SequentialIncrement ==
  [][(pc[1] \in {"inc_read", "inc_update"} /\ pc'[1] = "done") =>
       LET before == UsageOf(usage_tracking, loc[1].user, loc[1].month)
           after == UsageOf(usage_tracking', loc[1].user, loc[1].month) IN
       IF before.questions_used < before.questions_limit
         THEN /\ resp'[1].status = 200
              /\ after.questions_used = before.questions_used + 1
              /\ after.questions_limit = before.questions_limit
              /\ resp'[1].questionsUsed = before.questions_used + 1
              /\ resp'[1].questionsLimit = before.questions_limit
              /\ usage_tracking' \ {after} = usage_tracking \ {before}
         ELSE /\ resp'[1].status = 403
              /\ resp'[1].code = "USAGE_LIMIT_EXCEEDED"
              /\ resp'[1].questionsUsed = before.questions_used
              /\ resp'[1].questionsLimit = before.questions_limit
              /\ resp'[1].upgradeUrl = "/api/subscriptions/create-checkout-session"
              /\ usage_tracking' = usage_tracking]_vars

\* An increment was rejected on a record that earlier increments had brought
\* from below its limit up to it.
C3_Witness ==
  /\ pc[1] = "done" /\ loc[1].op = "increment"
  /\ resp[1].code = "USAGE_LIMIT_EXCEEDED"
  /\ resp[1].questionsUsed = resp[1].questionsLimit
  /\ resp[1].questionsUsed > 0
  /\ \E r \in usage_tracking :
       /\ r.user_id = loc[1].user /\ r.month_year = loc[1].month
       /\ r.questions_used = r.questions_limit

\* C4: a webhook request whose signature does not verify is answered 400, is
\* dispatched to no handler, makes no call to Stripe and leaves every
\* subscriptions and usage_tracking row unchanged, whatever the event's type.
C4_InvalidSignatureRejected ==
  \A ev \in Events :
    EventPossible(ev) =>
      /\ WebhookResult(FALSE, ev).reply.status = 400
      /\ WebhookResult(FALSE, ev).reply.handler = "none"
      /\ WebhookResult(FALSE, ev).reply.stripe_calls = 0
      /\ WebhookResult(FALSE, ev).db.subscriptions = subscriptions
      /\ WebhookResult(FALSE, ev).db.usage_tracking = usage_tracking

\* A webhook request was answered 400 while the user holds a Stripe subscription
\* an event could have changed.
C4_Witness ==
  /\ last.op = "webhook" /\ last.status = 400
  /\ \E i \in DOMAIN subscriptions : subscriptions[i].stripe_subscription_id # "none"

\* The rows of the user-owned subscription tables with a governing status.
C7_GoverningSubsOf(subs, u) ==
  {i \in SubsOf(subs, u) : subs[i].status \in {"active", "trialing", "past_due"}}

\* C6: for each of the six handled event types and every reachable storage
\* state, delivering the same signature-valid event twice in succession leaves
\* the subscriptions and usage_tracking rows as delivering it once does.
C6_RedeliveryIdempotent ==
  \A ev \in Events :
    (EventPossible(ev) /\ ev.type \in HandledTypes) =>
      Dispatch(Dispatch(DB, ev, now), ev, now) = Dispatch(DB, ev, now)

\* A handled event has been delivered and has changed the user's rows: the
\* user's row names a Stripe subscription and the usage record the premium limit.
C6_Witness ==
  /\ last.op = "webhook" /\ last.status = 200 /\ last.handler # "none"
  /\ \E i \in DOMAIN subscriptions :
       subscriptions[i].stripe_subscription_id # "none" /\ subscriptions[i].status # "active"
  /\ \E r \in usage_tracking : r.questions_limit = PremiumLimit

\* C7: in every reachable state, every user has exactly one subscriptions row
\* with status in {active, trialing, past_due}.
C7_OneGoverningRow ==
  \A u \in UserIds : Cardinality(C7_GoverningSubsOf(subscriptions, u)) = 1

\* plan_type or status of a stored subscriptions row changes in the step.
C8_PlanOrStatusChanged ==
  \E i \in DOMAIN subscriptions :
    \/ subscriptions'[i].plan_type # subscriptions[i].plan_type
    \/ subscriptions'[i].status # subscriptions[i].status

C5_ClaimedEmailMatchesProvider ==
  \A p \in Slots :
    ( /\ pc[p] = "done" /\ loc[p].op = "signin" /\ loc[p].variant = "access"
      /\ loc[p].credential # "bad"
      /\ loc[p].email # GoogleEmail(loc[p].credential) ) =>
      resp[p].status # 200

\* C9: the creation of a new user is all-or-nothing: no state holds a users row
\* without a subscriptions row and a usage_tracking row of the current month,
\* also when an insert fails or another request reads in between.
C9_UserCreationAtomic ==
  \A u \in UserIds :
    SubsOf(subscriptions, u) # {} /\ HasUsage(usage_tracking, u, now)

\* C10: a successful sign-in of an identity with no users row creates exactly
\* one users row, exactly one subscriptions row with plan free and status
\* active, and exactly one usage_tracking row of the current month with
\* questions_used = 0 and questions_limit = the configured free limit (50 when
\* the variable is unset).
C10_NewUserRows ==
  \A p \in Slots :
    ( /\ pc[p] = "done" /\ loc[p].op = "signin"
      /\ loc[p].is_new /\ resp[p].status = 200 ) =>
      LET u == resp[p].user IN
      /\ {v \in UserIds : users[v].google_id = loc[p].google_id
                            \/ users[v].email = loc[p].email} = {u}
      /\ users[u].google_id = loc[p].google_id
      /\ users[u].email = loc[p].email
      /\ Cardinality(SubsOf(subscriptions, u)) = 1
      /\ \A i \in SubsOf(subscriptions, u) :
           subscriptions[i].plan_type = "free" /\ subscriptions[i].status = "active"
      /\ {r \in usage_tracking : r.user_id = u} =
           {[user_id |-> u, month_year |-> now, questions_used |-> 0,
             questions_limit |-> IF env.FREE_QUESTIONS_LIMIT # 0
                                   THEN env.FREE_QUESTIONS_LIMIT ELSE 50]}

\* A first sign-in was answered 200 while the other request, for the same
\* account, is in flight or done too.
C10_Witness ==
  \E p \in Slots, q \in Slots :
    /\ p # q
    /\ pc[p] = "done" /\ loc[p].op = "signin" /\ loc[p].is_new /\ resp[p].status = 200
    /\ loc[q].op = "signin" /\ loc[q].google_id = loc[p].google_id
    /\ pc[q] = "done"

\* Requests to the routes behind authenticateToken with any Authorization
\* header, for a signed-in user whose account may be switched off: any
\* number to the subscription routes, one to /usage/increment.
NextAuth ==
  \/ \E op \in GuardedEndpoints, b \in Bearers, ok \in BOOLEAN : EndpointRequest(op, b, ok)
  \/ \E b \in Bearers, ok \in BOOLEAN : IncrementRequest(1, b, ok)
  \/ IncrementRead(1)
  \/ IncrementUpdate(1)
  \/ \E u \in UserIds : Deactivate(u)

SpecAuth == InitSignedIn /\ [][NextAuth]_vars

\* /api/chat requests with any Authorization header, two interleaving.
NextChat ==
  \/ \E p \in Pair, b \in Bearers, ok \in BOOLEAN : ChatRequest(p, b, ok)
  \/ \E p \in Pair : ChatCheck(p)
  \/ \E p \in Pair, outcome \in {"ok", "error", "throw"} : ChatFetch(p, outcome)
  \/ \E p \in Pair : ChatUpsert(p)
  \/ \E p \in Pair : Recycle(p)
  \/ \E u \in UserIds : Deactivate(u)
  \/ Tick

SpecChat == InitSignedIn /\ [][NextChat]_vars

\* C11: a token produced by generateToken(u), verified by authenticateToken
\* before its expiry, resolves to the users row with id u; once the user's
\* is_active flag has been set false, the verification of the same token fails
\* with USER_INACTIVE.
C11_TokenRoundTrip ==
  \A u \in tokens :
    authenticateToken(generateToken(u), TRUE) =
      IF users[u].is_active
        THEN [status |-> 0, code |-> "next", user |-> u]
        ELSE [status |-> 401, code |-> "USER_INACTIVE", user |-> 0]

\* A request with the token of a user switched off after the sign-in was
\* answered USER_INACTIVE.
C11_Witness ==
  /\ \E u \in tokens : ~users[u].is_active
  /\ last.status = 401 /\ last.code = "USER_INACTIVE"

\* The code the cause of a failed authentication determines ("none": the
\* header carries a live token of an active user).
C12_Cause(bearer) ==
  CASE bearer.form = "missing" -> "UNAUTHORIZED"
    [] bearer.form = "malformed" -> "INVALID_TOKEN"
    [] bearer.signature # "JWT_SECRET" -> "INVALID_TOKEN"
    [] bearer.expired -> "TOKEN_EXPIRED"
    [] ~users[bearer.userId].is_active -> "USER_INACTIVE"
    [] OTHER -> "none"

C13_OptionalAuthPassesOn ==
  \A b \in Bearers, ok \in BOOLEAN :
    /\ optionalAuth(b, ok).status = 0
    /\ optionalAuth(b, ok).code = "next"
    /\ IF /\ b.form = "jwt" /\ b.signature = "JWT_SECRET" /\ ~b.expired
          /\ ok /\ b.userId \in UserIds /\ users[b.userId].is_active
         THEN optionalAuth(b, ok).user = b.userId
         ELSE optionalAuth(b, ok).user = 0

\* A /api/chat request has gone on to the OpenAI call with no bound identity
\* while the only token ever issued belongs to a user switched off.
C13_Witness ==
  /\ tokens # {}
  /\ \A u \in tokens : ~users[u].is_active
  /\ \E p \in Slots : pc[p] = "chat_fetch" /\ loc[p].op = "chat" /\ loc[p].user = 0

\* The state after the user has signed in, opened a checkout, Stripe has sent
\* customer.subscription.created for sub_1 and the user has asked some
\* questions on the premium limit.
InitSubscribed ==
  /\ env \in Envs
  /\ hits = 0
  /\ now = 1
  /\ users = <<[email |-> GoogleEmail("g1"), google_id |-> "g1", is_active |-> TRUE]>>
  /\ subscriptions =
       UpdateSubscriptionByUser(SetCustomerByUser(<<FreeSubscription(1)>>, 1, 1),
                                1, "sub_1", "active", 1)
  /\ \E used \in 0..MaxUsed :
       /\ used <= PremiumLimit
       /\ usage_tracking = InsertUsage({}, 1, 1, used, PremiumLimit)
  /\ customers = {1}
  /\ tokens = {1}
  /\ pc = [p \in Slots |-> "idle"]
  /\ loc = [p \in Slots |-> NoLoc]
  /\ resp = [p \in Slots |-> NoResp]
  /\ last = [op |-> "webhook", status |-> 200, code |-> "received",
             handler |-> "customer.subscription.created", stripe_calls |-> 1]

\* The webhook and the daily check for a subscribed user.
NextWebhook ==
  \/ WebhookStep
  \/ SubscriptionCheck
  \/ Tick

SpecWebhook == InitSubscribed /\ [][NextWebhook]_vars

\* C14: processing customer.subscription.deleted for a resolvable user sets the
\* status of the row with the event's subscription id to cancelled (nothing
\* else of any row), sets questions_limit of the user's record of the current
\* month to the free limit and leaves its questions_used as it was, for every
\* value of questions_used.
C14_DeletedKeepsUsed ==
  \A ev \in Events :
    (ev.type = "customer.subscription.deleted" /\ EventPossible(ev) /\ OwnerOf(ev) # 0) =>
      LET after == WebhookResult(TRUE, ev).db
          free == IF env.FREE_QUESTIONS_LIMIT # 0 THEN env.FREE_QUESTIONS_LIMIT ELSE 50
      IN
      /\ DOMAIN after.subscriptions = DOMAIN subscriptions
      /\ \A i \in DOMAIN subscriptions :
           after.subscriptions[i] =
             IF subscriptions[i].stripe_subscription_id = ev.subscription
               THEN [subscriptions[i] EXCEPT !.status = "cancelled"]
               ELSE subscriptions[i]
      /\ \A r \in usage_tracking :
           IF r.user_id = OwnerOf(ev) /\ r.month_year = now
             THEN [r EXCEPT !.questions_limit = free] \in after.usage_tracking
             ELSE r \in after.usage_tracking
      /\ \A r \in after.usage_tracking :
           \/ r \in usage_tracking
           \/ /\ r.user_id = OwnerOf(ev) /\ r.month_year = now
              /\ r.questions_limit = free
              /\ \A q \in UsageRows(usage_tracking, r.user_id, now) :
                   r.questions_used = q.questions_used
              /\ UsageRows(usage_tracking, r.user_id, now) = {} => r.questions_used = 0

\* The deletion has been processed for a user whose count is above the free
\* limit: the row is cancelled, the record has the free limit and the count.
C14_Witness ==
  /\ last.handler = "customer.subscription.deleted" /\ last.status = 200
  /\ \E i \in DOMAIN subscriptions : subscriptions[i].status = "cancelled"
  /\ \E r \in usage_tracking :
       /\ r.month_year = now
       /\ r.questions_limit = FreeLimit /\ r.questions_used > FreeLimit

\* C15: after customer.subscription.created or checkout.session.completed has
\* been processed for a resolvable user, the user has a subscriptions row with
\* plan premium and the status and period bounds of the event, and the user's
\* usage record of the current month has the premium limit; for each of the
\* two event types on its own.
C15_UpgradeOnEitherEvent ==
  \A ev \in Events :
    ( /\ ev.type \in {"customer.subscription.created", "checkout.session.completed"}
      /\ ev.subscription # "none" /\ EventPossible(ev) /\ OwnerOf(ev) # 0 ) =>
      LET after == WebhookResult(TRUE, ev).db IN
      /\ \E i \in SubsOf(after.subscriptions, OwnerOf(ev)) :
           /\ after.subscriptions[i].plan_type = "premium"
           /\ after.subscriptions[i].status = ev.status
           /\ after.subscriptions[i].current_period_end = ev.current_period_end
           /\ after.subscriptions[i].current_period_start = ev.current_period_end - 1
      /\ \E r \in UsageRows(after.usage_tracking, OwnerOf(ev), now) :
           r.questions_limit = PremiumLimit

\* C16: customer.subscription.updated writes status, period bounds and
\* cancel_at_period_end to the rows whose stripe_subscription_id is the
\* event's; when no row has that id and the owner resolves to a user, it
\* writes them to that user's governing row instead.
C16_UpdatedFallsBackToUser ==
  \A ev \in Events :
    ( /\ ev.type = "customer.subscription.updated"
      /\ EventPossible(ev) /\ OwnerOf(ev) # 0 ) =>
      LET after == WebhookResult(TRUE, ev).db.subscriptions
          matched == {i \in DOMAIN subscriptions :
                        subscriptions[i].stripe_subscription_id = ev.subscription}
          target == IF matched # {} THEN matched
                    ELSE C7_GoverningSubsOf(subscriptions, OwnerOf(ev))
      IN \A i \in target :
           /\ after[i].status = ev.status
           /\ after[i].current_period_end = ev.current_period_end
           /\ after[i].cancel_at_period_end = ev.cancel_at_period_end

\* C17: when a row is past_due and invoice.payment_succeeded arrives for that
\* row's stripe_subscription_id with a customer that resolves to a user, the
\* event is acknowledged and the row's status is active afterwards.
C17_PaymentSucceededReactivates ==
  \A i \in DOMAIN subscriptions : \A ev \in Events :
    ( /\ subscriptions[i].status = "past_due"
      /\ subscriptions[i].stripe_subscription_id # "none"
      /\ ev.type = "invoice.payment_succeeded"
      /\ ev.subscription = subscriptions[i].stripe_subscription_id
      /\ EventPossible(ev) /\ OwnerOf(ev) # 0 ) =>
      /\ WebhookResult(TRUE, ev).reply.status = 200
      /\ WebhookResult(TRUE, ev).db.subscriptions[i].status = "active"

\* A past_due row for which the provider can report a succeeded payment, and
\* which that event turns active.
C17_Witness ==
  \E i \in DOMAIN subscriptions : \E ev \in Events :
    /\ last.handler = "invoice.payment_failed"
    /\ subscriptions[i].status = "past_due"
    /\ ev.type = "invoice.payment_succeeded"
    /\ ev.subscription = subscriptions[i].stripe_subscription_id
    /\ EventPossible(ev) /\ OwnerOf(ev) # 0
    /\ WebhookResult(TRUE, ev).db.subscriptions[i].status = "active"

\* C18: invoice.payment_failed for a resolvable customer sets the rows with
\* the event's stripe_subscription_id to past_due and changes nothing else:
\* every row keeps its plan_type and its other columns, rows with another id
\* are untouched, and every usage record keeps questions_limit and
\* questions_used.
C18_PaymentFailedOnlyStatus ==
  \A ev \in Events :
    ( /\ ev.type = "invoice.payment_failed" /\ ev.subscription # "none"
      /\ EventPossible(ev) /\ OwnerOf(ev) # 0 ) =>
      LET after == WebhookResult(TRUE, ev).db IN
      /\ DOMAIN after.subscriptions = DOMAIN subscriptions
      /\ \A i \in DOMAIN subscriptions :
           IF subscriptions[i].stripe_subscription_id = ev.subscription
             THEN after.subscriptions[i] = [subscriptions[i] EXCEPT !.status = "past_due"]
             ELSE after.subscriptions[i] = subscriptions[i]
      /\ after.usage_tracking = usage_tracking

\* A failed payment has put a premium row into past_due while the user's
\* record of the month still has the premium limit and a count above zero.
C18_Witness ==
  /\ last.op = "webhook" /\ last.handler = "invoice.payment_failed"
  /\ \E i \in DOMAIN subscriptions :
       /\ subscriptions[i].status = "past_due"
       /\ subscriptions[i].plan_type = "premium"
       /\ \E r \in UsageRows(usage_tracking, subscriptions[i].user_id, now) :
            r.questions_limit = PremiumLimit /\ r.questions_used > 0

\* C19: a validly signed event of a handled type whose customer carries no
\* user id is acknowledged with 200 {received: true} and leaves every
\* subscriptions row and every usage record as it was; this includes
\* customer.subscription.updated for a subscription id no row has.
C19_UnresolvedOwnerAcknowledged ==
  \A ev \in Events :
    ( /\ ev.type \in HandledTypes /\ ev.subscription # "none"
      /\ EventPossible(ev) /\ OwnerOf(ev) = 0 ) =>
      /\ WebhookResult(TRUE, ev).reply.status = 200
      /\ WebhookResult(TRUE, ev).reply.code = "received"
      /\ WebhookResult(TRUE, ev).db = DB

\* With no customer created yet, only events of customers without a user id
\* can arrive: a subscription.updated was acknowledged and the user still has
\* exactly the free row.
C19_Witness ==
  /\ customers = {}
  /\ last.op = "webhook" /\ last.status = 200
  /\ last.handler = "customer.subscription.updated" /\ last.stripe_calls = 1
  /\ subscriptions = <<FreeSubscription(1)>>

\* C20: a validly signed event whose type is none of the six handled ones is
\* acknowledged with 200, leaves the stored tables unchanged and makes no call
\* to the billing provider.
C20_UnhandledTypeIgnored ==
  \A ev \in Events :
    (ev.type \notin HandledTypes /\ EventPossible(ev)) =>
      /\ WebhookResult(TRUE, ev).reply.status = 200
      /\ WebhookResult(TRUE, ev).reply.handler = "none"
      /\ WebhookResult(TRUE, ev).reply.stripe_calls = 0
      /\ WebhookResult(TRUE, ev).db = DB

\* The last request was an acknowledged event that reached the default branch
\* while the user holds a premium row.
C20_Witness ==
  /\ last.op = "webhook" /\ last.status = 200 /\ last.handler = "none"
  /\ last.stripe_calls = 0
  /\ \E i \in DOMAIN subscriptions : subscriptions[i].plan_type = "premium"

\* ------------------------------------------------------------- handler faults
\* The webhook for a subscribed user, with handlers that may throw.
NextFault ==
  \/ WebhookStep
  \/ WebhookFaultStep
  \/ Tick

SpecFault == InitSubscribed /\ [][NextFault]_vars

\* C21: when a handler throws after the signature was verified (a Stripe
\* fetch or a query fails), the response is 500 and never {received: true};
\* the handler is not run again: the tables are those of the one interrupted
\* run and no more Stripe calls are made than one run makes. The 200
\* {received: true} answer comes with the tables of a completed handler.
C21_HandlerFailureNotAcknowledged ==
  \A ev \in Events :
    EventPossible(ev) =>
      /\ \A fault \in Faults :
           FaultReached(ev, fault) =>
             /\ WebhookFailure(ev, fault).reply.status = 500
             /\ WebhookFailure(ev, fault).reply.code # "received"
             /\ WebhookFailure(ev, fault).reply.stripe_calls <= StripeCalls(ev)
             /\ WebhookFailure(ev, fault).db \in
                  {DB, [DB EXCEPT !.subscriptions = Dispatch(DB, ev, now).subscriptions]}
      /\ WebhookResult(TRUE, ev).reply.code = "received" =>
           WebhookResult(TRUE, ev).db = Dispatch(DB, ev, now)

\* A deleted event was answered 500 after its first query: the row is
\* cancelled while the month's record still has the premium limit.
C21_Witness ==
  /\ last.op = "webhook" /\ last.status = 500
  /\ last.handler = "customer.subscription.deleted"
  /\ \E i \in DOMAIN subscriptions :
       /\ subscriptions[i].status = "cancelled"
       /\ \E r \in UsageRows(usage_tracking, subscriptions[i].user_id, now) :
            r.questions_limit = PremiumLimit /\ PremiumLimit # FreeLimit

\* C22: for every two events of the types customer.subscription.deleted,
\* invoice.payment_succeeded and invoice.payment_failed about the same
\* subscription of a resolvable customer, handling them in either order from
\* the same tables ends in the same subscriptions rows and usage records.
C22_RacingEventsConverge ==
  \A e1, e2 \in Events :
    ( /\ {e1.type, e2.type} \subseteq {"customer.subscription.deleted",
                                       "invoice.payment_succeeded",
                                       "invoice.payment_failed"}
      /\ e1.subscription # "none" /\ e2.subscription = e1.subscription
      /\ EventPossible(e1) /\ OwnerOf(e1) # 0 ) =>
      Dispatch(Dispatch(DB, e1, now), e2, now) = Dispatch(Dispatch(DB, e2, now), e1, now)

\* ------------------------------------------------------------- monthly reset
\* The webhook and the monthly reset for a subscribed user.
NextReset ==
  \/ WebhookStep
  \/ MonthlyUsageReset
  \/ Tick

SpecReset == InitSubscribed /\ [][NextReset]_vars

\* C23: running the monthly reset in a month for which a usage record with
\* questions_used > 0 already exists leaves that record's questions_used
\* unchanged.
C23_ResetKeepsUsed ==
  \A rows \in ResetOrders(subscriptions) :
    \A r \in usage_tracking :
      (r.month_year = now /\ r.questions_used > 0) =>
        \E r2 \in UsageRows(ResetLoop(usage_tracking, rows, now), r.user_id, now) :
          r2.questions_used = r.questions_used

\* C24: after the monthly reset has run in a month, every user with a row in
\* status active, trialing or past_due has a usage record of that month whose
\* limit is the limit of that row's plan.
C24_ResetCoversGoverning ==
  \A rows \in ResetOrders(subscriptions) :
    \A u \in UserIds :
      \A i \in C7_GoverningSubsOf(subscriptions, u) :
        \E r \in UsageRows(ResetLoop(usage_tracking, rows, now), u, now) :
          r.questions_limit = PlanLimit(subscriptions[i].plan_type)

\* C25: in every reachable state there is at most one usage record per user
\* and month, and no /usage/increment request that found no record of the
\* month and went on to create it is answered with a storage error (500),
\* also when another request of the user creates the record at the same time.
C25_OneRecordNoStorageError ==
  /\ \A r1, r2 \in usage_tracking :
       (r1.user_id = r2.user_id /\ r1.month_year = r2.month_year) => r1 = r2
  /\ \A p \in Slots :
       ~(loc[p].op = "increment" /\ pc[p] = "done" /\ resp[p].status = 500)

\* ---------------------------------------------------- metered, premium user
\* The metered endpoints, one request at a time, for a subscribed user.
NextMetered ==
  \/ IncrementStep(1)
  \/ ChatStep(1)
  \/ Recycle(1)
  \/ Tick

SpecMetered == InitSubscribed /\ [][NextMetered]_vars

\* C26: when a metered request (/usage/increment or an authenticated /chat)
\* creates the usage record of the current month, the record's limit is the
\* limit of the plan of a row of the user in status active, trialing or
\* past_due, and the free limit only if the user has no such row.
C26_LazyLimitFromGoverningPlan ==
  [][\A u \in UserIds :
       (~HasUsage(usage_tracking, u, now) /\ HasUsage(usage_tracking', u, now)) =>
         LET created == UsageOf(usage_tracking', u, now) IN
         IF C7_GoverningSubsOf(subscriptions, u) = {}
           THEN created.questions_limit = FreeLimit
           ELSE \E i \in C7_GoverningSubsOf(subscriptions, u) :
                  created.questions_limit = PlanLimit(subscriptions[i].plan_type)]_vars

\* C28: in /chat for an authenticated user the step that admits the request
\* to the upstream call has added 1 to questions_used of the month's record,
\* and the upstream call failing afterwards leaves the usage records as they
\* are.
C28_ChargedBeforeUpstream ==
  [][\A p \in Slots :
       /\ ( /\ pc[p] # "chat_fetch" /\ pc'[p] = "chat_fetch" /\ loc'[p].user # 0 ) =>
            /\ HasUsage(usage_tracking', loc'[p].user, now)
            /\ UsageOf(usage_tracking', loc'[p].user, now).questions_used =
                 IF HasUsage(usage_tracking, loc'[p].user, now)
                   THEN UsageOf(usage_tracking, loc'[p].user, now).questions_used + 1
                   ELSE 1
       /\ ( /\ pc[p] = "chat_fetch" /\ pc'[p] = "done" ) =>
            usage_tracking' = usage_tracking]_vars

\* --------------------------------------------------------------- tier change
\* The webhook and verify-payment for a subscribed user with a count on the
\* month's record.
NextTier ==
  \/ WebhookStep
  \/ \E u \in UserIds, s \in Sessions, st \in StripeStatuses, pe \in PeriodEnds :
       VerifyPayment(u, s, st, pe)
  \/ Tick

SpecTier == InitSubscribed /\ [][NextTier]_vars

\* C27: the usage records change only by customer.subscription.created,
\* customer.subscription.deleted and verify-payment; such a step writes the
\* new limit (the free limit for deleted, else the premium limit) to the
\* existing record of the current month and leaves questions_used of every
\* record as it was; a record it creates is one of the current month.
C27_LimitChangedInPlace ==
  [][usage_tracking' # usage_tracking =>
       /\ last'.status = 200
       /\ \/ last'.op = "verify-payment"
          \/ /\ last'.op = "webhook"
             /\ last'.handler \in {"customer.subscription.created",
                                   "customer.subscription.deleted"}
       /\ \A r \in usage_tracking :
            \E r2 \in usage_tracking' :
              /\ r2 = [r EXCEPT !.questions_limit = r2.questions_limit]
              /\ r2 # r =>
                   /\ r.month_year = now
                   /\ r2.questions_limit =
                        IF last'.handler = "customer.subscription.deleted"
                          THEN FreeLimit ELSE PremiumLimit
       /\ \A r2 \in usage_tracking' :
            \/ \E r \in usage_tracking :
                 r.user_id = r2.user_id /\ r.month_year = r2.month_year
            \/ r2.month_year = now /\ r2.questions_used = 0]_vars

\* verify-payment has succeeded for a user whose record of the month has a
\* count above zero, and the record has the premium limit.
C27_Witness ==
  /\ last.op = "verify-payment" /\ last.status = 200
  /\ \E r \in usage_tracking :
       /\ r.month_year = now /\ r.questions_used > 0
       /\ r.questions_limit = PremiumLimit
  /\ \E i \in DOMAIN subscriptions : subscriptions[i].plan_type = "premium"

\* C29: a sign-in whose credential verifies to a subject id other than the
\* claimed one is refused with an error code different from the code of a
\* rejected or unverifiable credential, binds no user and issues no token.
C29_MismatchKindDistinct ==
  \A p \in Slots :
    ( /\ pc[p] = "done" /\ loc[p].op = "signin" /\ loc[p].variant = "access"
      /\ loc[p].credential # "bad"
      /\ loc[p].credential # loc[p].google_id ) =>
      /\ resp[p].status # 200
      /\ resp[p].user = 0
      /\ resp[p].code # AuthFailed(p).code

\* C30: when a users row has the verified subject id and another users row
\* has the claimed email, the lookup of a sign-in binds the request to the row
\* with the subject id, never to the row that matches by email only.
C30_SubjectIdTakesPrecedence ==
  [][\A p \in Slots :
       ( /\ pc[p] = "si_lookup" /\ pc'[p] = "si_subinfo"
         /\ \E v \in UserIds : users[v].google_id = loc[p].google_id ) =>
         users[loc'[p].user].google_id = loc[p].google_id]_vars

NextLimit ==
  \/ \E c \in Credentials, i \in GoogleIds, e \in Emails : LimitedSignIn(1, c, i, e)
  \/ SignInLookup(1)
  \/ \E ok \in BOOLEAN : SignInInsertUser(1, ok)
  \/ \E ok \in BOOLEAN : SignInInsertSubscription(1, ok)
  \/ \E ok \in BOOLEAN : SignInInsertUsage(1, ok)
  \/ SignInRespond(1)
  \/ Recycle(1)
  \/ WindowReset

SpecLimit == Init /\ [][NextLimit]_vars

\* C32: of any 6 sign-in requests of one client within one window at least
\* one is answered 429: the limiter answers 429 to the sixth and every later
\* request it counts in a window.
C32_SixthSignInLimited ==
  [][(hits' = hits + 1 /\ hits' >= 6) =>
       \E p \in Slots : pc[p] = "idle" /\ pc'[p] = "done" /\ resp'[p].status = 429]_vars

\* C33: in every reachable state every subscriptions row has a status among
\* active, past_due, cancelled, expired, trialing and a plan among free,
\* premium, whatever status Stripe reports in a validly signed event.
C33_StatusAndPlanEnumerated ==
  \A i \in DOMAIN subscriptions :
    /\ subscriptions[i].status \in {"active", "past_due", "cancelled", "expired", "trialing"}
    /\ subscriptions[i].plan_type \in {"free", "premium"}

\* C34: within the usage record of one user and one month questions_used
\* never goes down: no step of a webhook, a request or a job leaves the record
\* with a smaller count than it had.
C34_UsedNeverDecreases ==
  [][\A r \in usage_tracking :
       \A r2 \in UsageRows(usage_tracking', r.user_id, r.month_year) :
         r2.questions_used >= r.questions_used]_vars

\* ------------------------------------------------------------- two accounts
\* The state after accounts g1 and g2 have signed in and asked some questions,
\* and user 1 has opened a checkout (Stripe customer 1, whose paid sessions
\* are those of sub_1 and sub_2).
InitTwoUsers ==
  /\ env \in Envs
  /\ hits = 0
  /\ now = 1
  /\ users = <<[email |-> GoogleEmail("g1"), google_id |-> "g1", is_active |-> TRUE],
               [email |-> GoogleEmail("g2"), google_id |-> "g2", is_active |-> TRUE]>>
  /\ subscriptions = SetCustomerByUser(<<FreeSubscription(1), FreeSubscription(2)>>, 1, 1)
  /\ \E used1, used2 \in 0..MaxUsed :
       /\ used1 <= InitialLimit /\ used2 <= InitialLimit
       /\ usage_tracking =
            InsertUsage(InsertUsage({}, 1, 1, used1, InitialLimit), 2, 1, used2, InitialLimit)
  /\ customers = {1}
  /\ tokens = {1, 2}
  /\ pc = [p \in Slots |-> "idle"]
  /\ loc = [p \in Slots |-> NoLoc]
  /\ resp = [p \in Slots |-> NoResp]
  /\ last = NoLast

\* The usage routes, one request at a time, for two users.
NextTenants ==
  \/ UsageRouteStep(1)
  \/ Recycle(1)
  \/ Tick

SpecTenants == InitTwoUsers /\ [][NextTenants]_vars

\* verify-payment for two users.
NextVerify ==
  \/ \E u \in UserIds, s \in Sessions, st \in StripeStatuses, pe \in PeriodEnds :
       VerifyPayment(u, s, st, pe)
  \/ Tick

SpecVerify == InitTwoUsers /\ [][NextVerify]_vars

\* C37: a verify-payment request gives a user's row a Stripe subscription and
\* the premium plan only when that subscription belongs to the billing
\* customer of that user.
C37_UpgradeOnlyOwnSession ==
  [][\A i \in DOMAIN subscriptions :
       ( /\ last'.op = "verify-payment" /\ last'.status = 200
         /\ i \in DOMAIN subscriptions'
         /\ subscriptions'[i] # subscriptions[i]
         /\ subscriptions'[i].plan_type = "premium" ) =>
         CustomerUserId(SubscriptionCustomer(subscriptions'[i].stripe_subscription_id))
           = subscriptions'[i].user_id]_vars

\* C38: a usage request of an authenticated caller changes no usage record of
\* another user, and the counts it answers are those of the caller's own
\* record of the current month.
C38_UsageIsolation ==
  [][\A p \in Slots :
       ( /\ pc[p] = "idle" /\ pc'[p] = "done"
         /\ loc'[p].op \in {"usage-status", "usage-reset"} ) =>
         /\ \A r \in usage_tracking :
              r.user_id # loc'[p].user => r \in usage_tracking'
         /\ ( loc'[p].op = "usage-status" /\ HasUsage(usage_tracking, loc'[p].user, now) ) =>
              resp'[p].questionsUsed =
                UsageOf(usage_tracking, loc'[p].user, now).questions_used]_vars

\* ------------------------------------------------------------ refresh tokens
\* Requests that present a refresh token as the bearer token, for a signed-in
\* user whose account may be switched off.
NextRefresh ==
  \/ \E op \in GuardedEndpoints, b \in RefreshBearers, ok \in BOOLEAN :
       EndpointRequest(op, b, ok)
  \/ \E b \in RefreshBearers, ok \in BOOLEAN : IncrementRequest(1, b, ok)
  \/ IncrementRead(1)
  \/ IncrementUpdate(1)
  \/ \E b \in RefreshBearers, ok \in BOOLEAN : ChatRequest(2, b, ok)
  \/ \E u \in UserIds : Deactivate(u)

SpecRefresh == InitSignedIn /\ [][NextRefresh]_vars

\* C39: a token minted by generateRefreshToken is accepted neither by
\* authenticateToken (it answers an error) nor by optionalAuth (it binds no
\* user).
C39_RefreshTokenNotAccepted ==
  \A b \in RefreshBearers, ok \in BOOLEAN :
    /\ authenticateToken(b, ok).status # 0
    /\ optionalAuth(b, ok).user = 0

\* ------------------------------------------------------------------ profile
\* The profile route beside the routes behind authenticateToken.
NextProfile ==
  \/ \E b \in Bearers : Profile(b)
  \/ NextAuth

SpecProfile == InitSignedIn /\ [][NextProfile]_vars

\* C35: a profile request is never answered with an unhandled server error,
\* and one that carries a valid bearer token of an active user is answered
\* with the user's profile.
C35_ProfileBearerAuthenticated ==
  [][\A b \in Bearers :
       Profile(b) =>
         /\ last'.status # 500
         /\ authenticateToken(b, TRUE).status = 0 => last'.status = 200]_vars

\* C36: in every state with no handler in progress, the limit of a user's
\* usage record of the current month is the premium limit exactly when a row
\* of the user in status active, trialing or past_due has the premium plan,
\* and the free limit otherwise.
C36_LimitMatchesPlan ==
  \A u \in UserIds :
    ( HasUsage(usage_tracking, u, now) /\ \A p \in Slots : pc[p] \in {"idle", "done"} ) =>
      UsageOf(usage_tracking, u, now).questions_limit =
        IF \E i \in C7_GoverningSubsOf(subscriptions, u) :
             subscriptions[i].plan_type = "premium"
          THEN PremiumLimit
          ELSE FreeLimit

\* C40: of two concurrent first sign-ins with the same verified identity, the
\* one that reaches its INSERT INTO users after the other has created the
\* user is not refused when no query fails for another reason: it goes on to
\* receive a session token.
C40_ConcurrentFirstSignIns ==
  [][\A p \in Pair, q \in Pair :
       ( /\ p # q
         /\ pc[p] = "si_insert_user"
         /\ loc[q].op = "signin" /\ loc[q].is_new
         /\ loc[q].google_id = loc[p].google_id /\ loc[q].email = loc[p].email
         /\ SignInInsertUser(p, TRUE) ) =>
         ~(pc'[p] = "done" /\ resp'[p].status # 200)]_vars

====
